---- MODULE Spec2Model ----
(***************************************************************************)
(* QuantumSecurityModule (src/advanced_security_module.py): one service    *)
(* instance with its key and its capped event log, and the operations      *)
(* encrypt_data, decrypt_data, generate_secure_hash, verify_integrity,     *)
(* scan_for_threats and get_security_status.                               *)
(*                                                                         *)
(* Text is a sequence of Unicode code points, a byte string a sequence of  *)
(* numbers 0..255.  A Python value is a record of one fixed shape (PyNone, *)
(* PyBool, PyInt, PyStr, PyDict, PyObj); a dict keeps its insertion order. *)
(***************************************************************************)
EXTENDS Integers, Sequences, FiniteSets, TLC

(***************************************************************************)
(* Text                                                                    *)
(***************************************************************************)

\* The printable ASCII characters, code points 32..126, in order (the grave
\* accent, 96, is spelled out).
AsciiTable ==
  << " ", "!", "\"", "#", "$", "%", "&", "'", "(", ")", "*", "+", ",", "-",
     ".", "/", "0", "1", "2", "3", "4", "5", "6", "7", "8", "9", ":", ";",
     "<", "=", ">", "?", "@", "A", "B", "C", "D", "E", "F", "G", "H", "I",
     "J", "K", "L", "M", "N", "O", "P", "Q", "R", "S", "T", "U", "V", "W",
     "X", "Y", "Z", "[", "\\", "]", "^", "_", "GRAVE", "a", "b", "c", "d", "e",
     "f", "g", "h", "i", "j", "k", "l", "m", "n", "o", "p", "q", "r", "s",
     "t", "u", "v", "w", "x", "y", "z", "{", "|", "}", "~" >>

\* ord(c) of a printable ASCII character.
Ord(c) == 31 + (CHOOSE i \in DOMAIN AsciiTable : AsciiTable[i] = c)

\* The text whose characters are the one-character strings of cs.
Txt(cs) == [i \in DOMAIN cs |-> Ord(cs[i])]

RECURSIVE Concat(_)
\* The concatenation of a sequence of sequences.
Concat(ss) == IF ss = << >> THEN << >> ELSE Head(ss) \o Concat(Tail(ss))

\* text.lower(): A..Z to a..z, every other character unchanged.
LowerChar(c) == IF c >= 65 /\ c <= 90 THEN c + 32 ELSE c

Lower(s) == [i \in DOMAIN s |-> LowerChar(s[i])]

\* needle in hay: substring containment.
Contains(hay, needle) ==
  \E i \in 0..(Len(hay) - Len(needle)) :
    \A j \in 1..Len(needle) : hay[i + j] = needle[j]

RECURSIVE NatToStr(_)
NatToStr(n) ==
  IF n < 10 THEN << 48 + n >> ELSE Append(NatToStr(n \div 10), 48 + (n % 10))

\* str(n) of an integer.
IntToStr(n) == IF n < 0 THEN << 45 >> \o NatToStr(0 - n) ELSE NatToStr(n)

\* One lower-case hexadecimal digit.
HexDigit(d) == IF d < 10 THEN 48 + d ELSE 87 + d

\* The value of a hexadecimal digit character, -1 for any other character.
HexVal(c) ==
  IF c >= 48 /\ c <= 57 THEN c - 48
  ELSE IF c >= 97 /\ c <= 102 THEN c - 87
  ELSE IF c >= 65 /\ c <= 70 THEN c - 55
  ELSE -1

\* bytes.hex(): two lower-case hexadecimal digits per byte.
Hex(bs) ==
  [i \in 1..(2 * Len(bs)) |->
     IF i % 2 = 1 THEN HexDigit(bs[(i + 1) \div 2] \div 16)
     ELSE HexDigit(bs[i \div 2] % 16)]

\* s < t in Python's string order (lexicographic by code point).
RECURSIVE TextLess(_, _)
TextLess(s, t) ==
  IF t = << >> THEN FALSE
  ELSE IF s = << >> THEN TRUE
  ELSE IF Head(s) # Head(t) THEN Head(s) < Head(t)
  ELSE TextLess(Tail(s), Tail(t))

(***************************************************************************)
(* Python values                                                           *)
(***************************************************************************)

PyNone == [t |-> "none", b |-> FALSE, n |-> 0, s |-> << >>, items |-> << >>]
PyBool(b) == [t |-> "bool", b |-> b, n |-> 0, s |-> << >>, items |-> << >>]
PyInt(n) == [t |-> "int", b |-> FALSE, n |-> n, s |-> << >>, items |-> << >>]
PyStr(s) == [t |-> "str", b |-> FALSE, n |-> 0, s |-> s, items |-> << >>]
\* A dict with text keys: its items, [k |-> key, v |-> value], in insertion order.
PyDict(items) ==
  [t |-> "dict", b |-> FALSE, n |-> 0, s |-> << >>, items |-> items]
\* An object json cannot serialize and that is neither text nor a dict
\* (object(), a set, bytes).
PyObj == [t |-> "obj", b |-> FALSE, n |-> 0, s |-> << >>, items |-> << >>]

\* The position of key k in a dict's items, 0 when it is absent.
KeyIndex(items, k) ==
  IF \E i \in DOMAIN items : items[i].k = k
  THEN CHOOSE i \in DOMAIN items : items[i].k = k
  ELSE 0

\* d[k] = v on a dict's items: a new key goes last, an old key keeps its place.
DictSet(items, k, v) ==
  IF KeyIndex(items, k) = 0 THEN Append(items, [k |-> k, v |-> v])
  ELSE [items EXCEPT ![KeyIndex(items, k)] = [k |-> k, v |-> v]]

\* The number a bool or an int stands for (True == 1, False == 0).
PyNum(a) == IF a.t = "bool" THEN (IF a.b THEN 1 ELSE 0) ELSE a.n

RECURSIVE PyEq(_, _)
\* a == b in Python for the values above: a dict equals a dict with the same
\* keys and equal values, whatever the order of insertion; a bool equals the
\* int of its value.
PyEq(a, b) ==
  IF a.t \in {"bool", "int"} /\ b.t \in {"bool", "int"}
    THEN PyNum(a) = PyNum(b)
  ELSE IF a.t # b.t THEN FALSE
  ELSE IF a.t = "dict"
    THEN /\ Len(a.items) = Len(b.items)
         /\ \A i \in DOMAIN a.items :
              LET j == KeyIndex(b.items, a.items[i].k)
              IN  j # 0 /\ PyEq(a.items[i].v, b.items[j].v)
  ELSE a = b

(***************************************************************************)
(* json.dumps and json.loads                                               *)
(***************************************************************************)

\* The escape json.dumps (ensure_ascii) writes for one character of a string.
EscapeChar(c) ==
  IF c = 34 THEN << 92, 34 >>
  ELSE IF c = 92 THEN << 92, 92 >>
  ELSE IF c = 10 THEN << 92, 110 >>
  ELSE IF c = 13 THEN << 92, 114 >>
  ELSE IF c = 9 THEN << 92, 116 >>
  ELSE IF c = 8 THEN << 92, 98 >>
  ELSE IF c = 12 THEN << 92, 102 >>
  ELSE IF c < 32 \/ c > 126
    THEN << 92, 117, HexDigit((c \div 4096) % 16), HexDigit((c \div 256) % 16),
            HexDigit((c \div 16) % 16), HexDigit(c % 16) >>
  ELSE << c >>

\* A string as json.dumps writes it: quoted and escaped.
DumpStr(s) == << 34 >> \o Concat([i \in DOMAIN s |-> EscapeChar(s[i])]) \o << 34 >>

RECURSIVE InsertByKey(_, _)
InsertByKey(sorted, item) ==
  IF sorted = << >> THEN << item >>
  ELSE IF TextLess(item.k, Head(sorted).k) THEN << item >> \o sorted
  ELSE << Head(sorted) >> \o InsertByKey(Tail(sorted), item)

RECURSIVE SortItems(_)
\* sorted(dct.items()): the items by ascending key.
SortItems(items) ==
  IF items = << >> THEN << >>
  ELSE InsertByKey(SortItems(Tail(items)), Head(items))

RECURSIVE JsonDumps(_, _)
RECURSIVE DumpItems(_, _)
\* The items of a dict as json.dumps writes them, ", " between two items and
\* ": " between a key and its value.
DumpItems(items, sort_keys) ==
  IF items = << >> THEN [ok |-> TRUE, s |-> << >>]
  ELSE LET v == JsonDumps(Head(items).v, sort_keys)
           rest == DumpItems(Tail(items), sort_keys)
       IN  IF ~v.ok \/ ~rest.ok THEN [ok |-> FALSE, s |-> << >>]
           ELSE [ok |-> TRUE,
                 s |-> DumpStr(Head(items).k) \o << 58, 32 >> \o v.s
                       \o (IF Tail(items) = << >> THEN << >> ELSE << 44, 32 >>)
                       \o rest.s]

\* json.dumps(v, sort_keys=sort_keys): [ok, s], ok = FALSE when it raises
\* TypeError (Object of type ... is not JSON serializable).
JsonDumps(v, sort_keys) ==
  IF v.t = "none" THEN [ok |-> TRUE, s |-> << 110, 117, 108, 108 >>]
  ELSE IF v.t = "bool"
    THEN [ok |-> TRUE,
          s |-> IF v.b THEN << 116, 114, 117, 101 >>
                ELSE << 102, 97, 108, 115, 101 >>]
  ELSE IF v.t = "int" THEN [ok |-> TRUE, s |-> IntToStr(v.n)]
  ELSE IF v.t = "str" THEN [ok |-> TRUE, s |-> DumpStr(v.s)]
  ELSE IF v.t = "dict"
    THEN LET body == DumpItems(IF sort_keys THEN SortItems(v.items) ELSE v.items,
                               sort_keys)
         IN  IF body.ok THEN [ok |-> TRUE, s |-> << 123 >> \o body.s \o << 125 >>]
             ELSE body
  ELSE [ok |-> FALSE, s |-> << >>]

\* A failed parse.
NoParse == [ok |-> FALSE, val |-> PyNone, end |-> 0]

RECURSIVE SkipWs(_, _)
\* The first position at or after i that holds no JSON whitespace.
SkipWs(s, i) ==
  IF i <= Len(s) /\ s[i] \in {32, 9, 10, 13} THEN SkipWs(s, i + 1) ELSE i

\* The character a backslash escape stands for, -1 for an invalid escape.
Unescape(e) ==
  IF e \in {34, 92, 47} THEN e
  ELSE IF e = 98 THEN 8
  ELSE IF e = 102 THEN 12
  ELSE IF e = 110 THEN 10
  ELSE IF e = 114 THEN 13
  ELSE IF e = 116 THEN 9
  ELSE -1

RECURSIVE ScanString(_, _, _)
\* py_scanstring from position i, just after the opening quote: the string up
\* to the closing quote, escapes decoded.
ScanString(s, i, acc) ==
  IF i > Len(s) THEN NoParse
  ELSE IF s[i] = 34 THEN [ok |-> TRUE, val |-> PyStr(acc), end |-> i + 1]
  ELSE IF s[i] = 92
    THEN IF i + 1 > Len(s) THEN NoParse
         ELSE IF s[i + 1] = 117
           THEN IF i + 5 <= Len(s) /\ \A j \in 2..5 : HexVal(s[i + j]) >= 0
                THEN ScanString(s, i + 6,
                       Append(acc, 4096 * HexVal(s[i + 2]) + 256 * HexVal(s[i + 3])
                                   + 16 * HexVal(s[i + 4]) + HexVal(s[i + 5])))
                ELSE NoParse
         ELSE IF Unescape(s[i + 1]) >= 0
           THEN ScanString(s, i + 2, Append(acc, Unescape(s[i + 1])))
         ELSE NoParse
  ELSE IF s[i] < 32 THEN NoParse
  ELSE ScanString(s, i + 1, Append(acc, s[i]))

RECURSIVE ScanDigits(_, _, _)
\* The digits from position i on: their value and the position after them.
ScanDigits(s, i, acc) ==
  IF i <= Len(s) /\ s[i] >= 48 /\ s[i] <= 57
  THEN ScanDigits(s, i + 1, 10 * acc + (s[i] - 48))
  ELSE [n |-> acc, end |-> i]

\* NUMBER_RE at position i, integer part: -?(0|[1-9][0-9]*).  A fraction or
\* an exponent after it makes a float, which the model's payloads never hold.
ScanInt(s, i) ==
  LET neg == i <= Len(s) /\ s[i] = 45
      j == IF neg THEN i + 1 ELSE i
  IN  IF j > Len(s) \/ s[j] < 48 \/ s[j] > 57 THEN NoParse
      ELSE IF s[j] = 48 THEN [ok |-> TRUE, val |-> PyInt(0), end |-> j + 1]
      ELSE LET d == ScanDigits(s, j, 0)
           IN  [ok |-> TRUE, val |-> PyInt(IF neg THEN 0 - d.n ELSE d.n),
                end |-> d.end]

\* s[i:i+len(word)] == word
StartsWith(s, i, word) ==
  /\ i + Len(word) - 1 <= Len(s)
  /\ \A j \in 1..Len(word) : s[i + j - 1] = word[j]

RECURSIVE ScanOnce(_, _)
RECURSIVE ScanMembers(_, _, _)
\* JSONObject from position i, which must hold the opening quote of a key:
\* "key" : value, then either a comma and the next member or the closing brace.
ScanMembers(s, i, items) ==
  IF i > Len(s) \/ s[i] # 34 THEN NoParse
  ELSE LET key == ScanString(s, i + 1, << >>)
       IN  IF ~key.ok THEN NoParse
           ELSE LET c == SkipWs(s, key.end)
                IN  IF c > Len(s) \/ s[c] # 58 THEN NoParse
                    ELSE LET v == ScanOnce(s, SkipWs(s, c + 1))
                         IN  IF ~v.ok THEN NoParse
                             ELSE LET e == SkipWs(s, v.end)
                                      now == DictSet(items, key.val.s, v.val)
                                  IN  IF e > Len(s) THEN NoParse
                                      ELSE IF s[e] = 125
                                        THEN [ok |-> TRUE, val |-> PyDict(now),
                                              end |-> e + 1]
                                      ELSE IF s[e] = 44
                                        THEN ScanMembers(s, SkipWs(s, e + 1), now)
                                      ELSE NoParse

\* scan_once(s, i): the JSON value that starts at position i.
ScanOnce(s, i) ==
  IF i > Len(s) THEN NoParse
  ELSE IF s[i] = 34 THEN ScanString(s, i + 1, << >>)
  ELSE IF s[i] = 123
    THEN LET j == SkipWs(s, i + 1)
         IN  IF j <= Len(s) /\ s[j] = 125
             THEN [ok |-> TRUE, val |-> PyDict(<< >>), end |-> j + 1]
             ELSE ScanMembers(s, j, << >>)
  ELSE IF StartsWith(s, i, << 110, 117, 108, 108 >>)
    THEN [ok |-> TRUE, val |-> PyNone, end |-> i + 4]
  ELSE IF StartsWith(s, i, << 116, 114, 117, 101 >>)
    THEN [ok |-> TRUE, val |-> PyBool(TRUE), end |-> i + 4]
  ELSE IF StartsWith(s, i, << 102, 97, 108, 115, 101 >>)
    THEN [ok |-> TRUE, val |-> PyBool(FALSE), end |-> i + 5]
  ELSE ScanInt(s, i)

\* json.loads(s): [ok, val], ok = FALSE when it raises JSONDecodeError.  One
\* value, whitespace allowed around it, nothing else after it.
JsonLoads(s) ==
  LET r == ScanOnce(s, SkipWs(s, 1))
  IN  IF r.ok /\ SkipWs(s, r.end) = Len(s) + 1 THEN [ok |-> TRUE, val |-> r.val]
      ELSE [ok |-> FALSE, val |-> PyNone]

(***************************************************************************)
(* Bytes: UTF-8 and base64                                                 *)
(***************************************************************************)

\* The UTF-8 bytes of one code point; << >> for a surrogate, which str.encode
\* refuses (UnicodeEncodeError: surrogates not allowed).
Utf8Char(c) ==
  IF c < 128 THEN << c >>
  ELSE IF c < 2048 THEN << 192 + (c \div 64), 128 + (c % 64) >>
  ELSE IF c >= 55296 /\ c <= 57343 THEN << >>
  ELSE IF c < 65536
    THEN << 224 + (c \div 4096), 128 + ((c \div 64) % 64), 128 + (c % 64) >>
  ELSE << 240 + (c \div 262144), 128 + ((c \div 4096) % 64),
          128 + ((c \div 64) % 64), 128 + (c % 64) >>

\* text.encode('utf-8'): [ok, bytes], ok = FALSE when it raises.
Utf8Encode(s) ==
  IF \E i \in DOMAIN s : Utf8Char(s[i]) = << >>
  THEN [ok |-> FALSE, bytes |-> << >>]
  ELSE [ok |-> TRUE, bytes |-> Concat([i \in DOMAIN s |-> Utf8Char(s[i])])]

\* b is a UTF-8 continuation byte at position i of bs.
IsCont(bs, i) == i <= Len(bs) /\ bs[i] >= 128 /\ bs[i] <= 191

RECURSIVE Utf8DecodeFrom(_, _, _)
Utf8DecodeFrom(bs, i, acc) ==
  IF i > Len(bs) THEN [ok |-> TRUE, s |-> acc]
  ELSE LET b == bs[i]
       IN  IF b < 128 THEN Utf8DecodeFrom(bs, i + 1, Append(acc, b))
           ELSE IF b >= 194 /\ b <= 223 /\ IsCont(bs, i + 1)
             THEN Utf8DecodeFrom(bs, i + 2,
                    Append(acc, (b - 192) * 64 + (bs[i + 1] - 128)))
           ELSE IF b >= 224 /\ b <= 239 /\ IsCont(bs, i + 1) /\ IsCont(bs, i + 2)
             THEN LET c == (b - 224) * 4096 + (bs[i + 1] - 128) * 64
                           + (bs[i + 2] - 128)
                  IN  IF c < 2048 \/ (c >= 55296 /\ c <= 57343)
                      THEN [ok |-> FALSE, s |-> << >>]
                      ELSE Utf8DecodeFrom(bs, i + 3, Append(acc, c))
           ELSE IF b >= 240 /\ b <= 244 /\ IsCont(bs, i + 1) /\ IsCont(bs, i + 2)
                   /\ IsCont(bs, i + 3)
             THEN LET c == (b - 240) * 262144 + (bs[i + 1] - 128) * 4096
                           + (bs[i + 2] - 128) * 64 + (bs[i + 3] - 128)
                  IN  IF c < 65536 \/ c > 1114111
                      THEN [ok |-> FALSE, s |-> << >>]
                      ELSE Utf8DecodeFrom(bs, i + 4, Append(acc, c))
           ELSE [ok |-> FALSE, s |-> << >>]

\* bytes.decode('utf-8'): [ok, s], ok = FALSE when it raises UnicodeDecodeError.
Utf8Decode(bs) == Utf8DecodeFrom(bs, 1, << >>)

\* The base64 character of a 6-bit value: A-Z, a-z, 0-9, + and /.
B64Char(v) ==
  IF v < 26 THEN 65 + v
  ELSE IF v < 52 THEN 97 + (v - 26)
  ELSE IF v < 62 THEN 48 + (v - 52)
  ELSE IF v = 62 THEN 43
  ELSE 47

\* The 6-bit value of a base64 character, -1 for a character outside the
\* alphabet.
B64Val(c) ==
  IF c >= 65 /\ c <= 90 THEN c - 65
  ELSE IF c >= 97 /\ c <= 122 THEN c - 97 + 26
  ELSE IF c >= 48 /\ c <= 57 THEN c - 48 + 52
  ELSE IF c = 43 THEN 62
  ELSE IF c = 47 THEN 63
  ELSE -1

RECURSIVE B64Encode(_)
\* base64.b64encode(bs).decode('utf-8'): four characters for every three
\* bytes, the last group padded with '='.
B64Encode(bs) ==
  IF bs = << >> THEN << >>
  ELSE IF Len(bs) = 1
    THEN << B64Char(bs[1] \div 4), B64Char((bs[1] % 4) * 16), 61, 61 >>
  ELSE IF Len(bs) = 2
    THEN << B64Char(bs[1] \div 4),
            B64Char((bs[1] % 4) * 16 + (bs[2] \div 16)),
            B64Char((bs[2] % 16) * 4), 61 >>
  ELSE << B64Char(bs[1] \div 4),
          B64Char((bs[1] % 4) * 16 + (bs[2] \div 16)),
          B64Char((bs[2] % 16) * 4 + (bs[3] \div 64)),
          B64Char(bs[3] % 64) >> \o B64Encode(SubSeq(bs, 4, Len(bs)))

\* The number of alphabet characters of a text.
B64DataChars(s) == Cardinality({i \in DOMAIN s : B64Val(s[i]) >= 0})

RECURSIVE A2bBase64(_, _, _, _, _, _)
\* binascii.a2b_base64(s) as base64.b64decode calls it (validate=False), from
\* position i with quad_pos, leftchar, pads and the bytes written so far: a
\* character outside the alphabet is skipped, a complete run of padding ends
\* the input, and the bits left over in the last character are dropped.
A2bBase64(s, i, quad_pos, leftchar, pads, out) ==
  IF i > Len(s)
    THEN IF quad_pos = 0 THEN [ok |-> TRUE, bytes |-> out, err |-> ""]
         ELSE IF quad_pos = 1
           THEN [ok |-> FALSE, bytes |-> << >>,
                 err |-> "Invalid base64-encoded string: number of data characters ("
                         \o ToString(B64DataChars(s))
                         \o ") cannot be 1 more than a multiple of 4"]
         ELSE [ok |-> FALSE, bytes |-> << >>, err |-> "Incorrect padding"]
  ELSE IF s[i] = 61
    THEN IF quad_pos >= 2 /\ quad_pos + pads + 1 >= 4
           THEN [ok |-> TRUE, bytes |-> out, err |-> ""]
         ELSE A2bBase64(s, i + 1, quad_pos, leftchar,
                        IF quad_pos >= 2 THEN pads + 1 ELSE pads, out)
  ELSE IF B64Val(s[i]) < 0
    THEN A2bBase64(s, i + 1, quad_pos, leftchar, pads, out)
  ELSE LET v == B64Val(s[i])
       IN  IF quad_pos = 0 THEN A2bBase64(s, i + 1, 1, v, 0, out)
           ELSE IF quad_pos = 1
             THEN A2bBase64(s, i + 1, 2, v % 16, 0,
                            Append(out, leftchar * 4 + (v \div 16)))
           ELSE IF quad_pos = 2
             THEN A2bBase64(s, i + 1, 3, v % 4, 0,
                            Append(out, leftchar * 16 + (v \div 4)))
           ELSE A2bBase64(s, i + 1, 0, 0, 0, Append(out, leftchar * 64 + v))

\* base64.b64decode(s) of a str: [ok, bytes, err], ok = FALSE when it raises,
\* err the text of the error.
B64Decode(s) ==
  IF \E i \in DOMAIN s : s[i] > 127
  THEN [ok |-> FALSE, bytes |-> << >>,
        err |-> "string argument should contain only ASCII characters"]
  ELSE A2bBase64(s, 1, 0, 0, 0, << >>)

(***************************************************************************)
(* AES-256-GCM and SHA-256, idealised                                      *)
(***************************************************************************)

\* The length in bytes of the key get_random_bytes returns.
KeyLen == 32

\* The number of entries _log_security_event keeps.
LogCap == 100

\* The number of calls one behaviour makes on the service.
MaxOps == 2

\* The number of events by which a long run of calls overruns the log, and
\* the number of other calls beside the run.
MaxOverrun == 2

MaxLogOps == 1

RECURSIVE Xor(_, _)
\* a XOR b on natural numbers.
Xor(a, b) ==
  IF a = 0 THEN b
  ELSE IF b = 0 THEN a
  ELSE 2 * Xor(a \div 2, b \div 2) + ((a + b) % 2)

\* A key of KeyLen bytes.  The keys of different seeds differ in every byte.
KeyBytes(seed) == [i \in 1..KeyLen |-> (seed * i + 11) % 256]

\* The keys get_random_bytes(32) may return, in the model.
Keys == {KeyBytes(7), KeyBytes(201)}

\* The nonces AES.new(key, AES.MODE_GCM) may draw, in the model.
Nonces == {<< 0, 1 >>, << 254, 255 >>}

\* Byte i of the GCM key stream of (key, nonce); it stands for the AES
\* encryption of the i-th counter block.  nonce is not empty.
KeyStream(key, nonce, i) ==
  (key[1 + (i % Len(key))] + 31 * nonce[1 + (i % Len(nonce))] + 7 * i) % 256

\* GCM encryption and decryption of data: counter mode, each byte XOR the key
\* stream.
GcmCrypt(key, nonce, data) ==
  [i \in DOMAIN data |-> Xor(data[i], KeyStream(key, nonce, i))]

\* The authentication tag of (nonce, ciphertext) under key, as an ideal MAC:
\* for one key an injective function of (nonce, ciphertext), and the tags of
\* two keys of the model differ for every (nonce, ciphertext).
GcmTag(key, nonce, ct) ==
  LET body == << Len(nonce) % 256 >> \o nonce \o ct
  IN  [j \in DOMAIN body |-> Xor(body[j], key[1 + (j % Len(key))])]

\* hashlib.sha256(bs).hexdigest(), as an ideal hash: two digests are equal
\* exactly when the hashed bytes are.
Sha256Hex(bs) == [sha256 |-> bs]

(***************************************************************************)
(* The operations, as functions of the key, the clock and the arguments    *)
(***************************************************************************)

\* type(v).__name__
TypeName(v) ==
  IF v.t = "none" THEN "NoneType"
  ELSE IF v.t = "obj" THEN "object"
  ELSE v.t

\* str(v), which is also f"{v}", of a value that is not a dict.
FormatStr(v) ==
  IF v.t = "str" THEN v.s
  ELSE IF v.t = "int" THEN IntToStr(v.n)
  ELSE IF v.t = "bool"
    THEN (IF v.b THEN << 84, 114, 117, 101 >> ELSE << 70, 97, 108, 115, 101 >>)
  ELSE IF v.t = "none" THEN << 78, 111, 110, 101 >>
  ELSE << 60, 111, 98, 106, 101, 99, 116, 62 >>

\* An envelope, and any mapping or other object a caller hands to
\* decrypt_data: isdict = FALSE for an object that is no mapping (None),
\* missing the keys the mapping lacks.
Package(ct, nonce, tag, now) ==
  [isdict |-> TRUE, missing |-> {}, encrypted_data |-> ct, nonce |-> nonce,
   auth_tag |-> tag, timestamp |-> now,
   encryption_method |-> "AES-256-GCM-Quantum"]

\* The envelope encrypt_data builds from the bytes of the payload.
Envelope(key, nonce, data_bytes, now) ==
  LET encrypted_data == GcmCrypt(key, nonce, data_bytes)
      auth_tag == GcmTag(key, nonce, encrypted_data)
  IN  Package(B64Encode(encrypted_data), B64Encode(nonce), B64Encode(auth_tag),
              now)

NoPackage == [Package(<< >>, << >>, << >>, 0) EXCEPT !.isdict = FALSE]

\* The try block of encrypt_data: [ok, env, err], ok = FALSE with the text of
\* the exception when it raises.
EncryptBody(key, data, nonce, now) ==
  LET dumped == JsonDumps(data, FALSE)
      text == IF data.t = "dict" THEN dumped.s ELSE data.s
      enc == Utf8Encode(text)
  IN  IF data.t = "dict" /\ ~dumped.ok
        THEN [ok |-> FALSE, env |-> NoPackage,
              err |-> "Object of type object is not JSON serializable"]
      ELSE IF data.t \notin {"dict", "str"}
        THEN [ok |-> FALSE, env |-> NoPackage,
              err |-> "'" \o TypeName(data) \o "' object has no attribute 'encode'"]
      ELSE IF ~enc.ok
        THEN [ok |-> FALSE, env |-> NoPackage,
              err |-> "'utf-8' codec can't encode character: surrogates not allowed"]
      ELSE [ok |-> TRUE, env |-> Envelope(key, nonce, enc.bytes, now), err |-> ""]

DecryptFailed(err) == [ok |-> FALSE, val |-> PyNone, err |-> err]

\* cipher.decrypt_and_verify and what follows it in decrypt_data, for the
\* decoded ciphertext, nonce and tag.
DecryptAndVerify(key, encrypted_data, nonce, auth_tag) ==
  IF nonce = << >> THEN DecryptFailed("Nonce cannot be empty")
  ELSE IF auth_tag # GcmTag(key, nonce, encrypted_data)
    THEN DecryptFailed("MAC check failed")
  ELSE LET result == Utf8Decode(GcmCrypt(key, nonce, encrypted_data))
           parsed == JsonLoads(result.s)
       IN  IF ~result.ok
             THEN DecryptFailed("'utf-8' codec can't decode byte: invalid start byte")
           ELSE [ok |-> TRUE,
                 val |-> IF parsed.ok THEN parsed.val ELSE PyStr(result.s),
                 err |-> ""]

\* The try block of decrypt_data: [ok, val, err], ok = FALSE with the text of
\* the exception when it raises.
DecryptBody(key, pkg) ==
  LET encrypted_data == B64Decode(pkg.encrypted_data)
      nonce == B64Decode(pkg.nonce)
      auth_tag == B64Decode(pkg.auth_tag)
  IN  IF ~pkg.isdict THEN DecryptFailed("'NoneType' object is not subscriptable")
      ELSE IF "encrypted_data" \in pkg.missing THEN DecryptFailed("'encrypted_data'")
      ELSE IF ~encrypted_data.ok THEN DecryptFailed(encrypted_data.err)
      ELSE IF "nonce" \in pkg.missing THEN DecryptFailed("'nonce'")
      ELSE IF ~nonce.ok THEN DecryptFailed(nonce.err)
      ELSE IF "auth_tag" \in pkg.missing THEN DecryptFailed("'auth_tag'")
      ELSE IF ~auth_tag.ok THEN DecryptFailed(auth_tag.err)
      ELSE DecryptAndVerify(key, encrypted_data.bytes, nonce.bytes, auth_tag.bytes)

\* An exception that reaches the caller: its type and, for a Unicode error,
\* the text that was being encoded (the exception's object attribute).
Exc(type, object) == [type |-> type, object |-> object]

NoExc == Exc("", << >>)

\* An integrity tag, and any mapping or other object a caller hands to
\* verify_integrity: isdict = FALSE for an object that is no mapping (None),
\* has_hash = FALSE for a mapping without the key 'hash'.
HashInfo(hash, timestamp) ==
  [isdict |-> TRUE, has_hash |-> TRUE, hash |-> hash, timestamp |-> timestamp,
   algorithm |-> "SHA-256-Quantum-Enhanced"]

NoHashInfo == [HashInfo(Sha256Hex(<< >>), << >>) EXCEPT !.isdict = FALSE]

\* generate_secure_hash without sort_keys: a mapping is serialized in its
\* insertion order.
SecureHashUnsorted(key, data, now) ==
  LET dumped == JsonDumps(data, FALSE)
      text == IF data.t = "dict" THEN dumped.s ELSE FormatStr(data)
      timestamp == IntToStr(now)
      combined_data == Utf8Encode(text \o timestamp \o Hex(key))
  IN  IF data.t = "dict" /\ ~dumped.ok
        THEN [raised |-> TRUE, val |-> NoHashInfo, exc |-> Exc("TypeError", << >>)]
      ELSE IF ~combined_data.ok
        THEN [raised |-> TRUE, val |-> NoHashInfo,
              exc |-> Exc("UnicodeEncodeError", text \o timestamp \o Hex(key))]
      ELSE [raised |-> FALSE,
            val |-> HashInfo(Sha256Hex(combined_data.bytes), timestamp),
            exc |-> NoExc]

\* generate_secure_hash(data) at clock reading now: [raised, val, exc], raised
\* = TRUE when json.dumps or str.encode raises, exc the exception then.
SecureHash(key, data, now) ==
  LET dumped == JsonDumps(data, TRUE)
      text == IF data.t = "dict" THEN dumped.s ELSE FormatStr(data)
      timestamp == IntToStr(now)
      combined_data == Utf8Encode(text \o timestamp \o Hex(key))
  IN  IF data.t = "dict" /\ ~dumped.ok
        THEN [raised |-> TRUE, val |-> NoHashInfo, exc |-> Exc("TypeError", << >>)]
      ELSE IF ~combined_data.ok
        THEN [raised |-> TRUE, val |-> NoHashInfo,
              exc |-> Exc("UnicodeEncodeError", text \o timestamp \o Hex(key))]
      ELSE [raised |-> FALSE,
            val |-> HashInfo(Sha256Hex(combined_data.bytes), timestamp),
            exc |-> NoExc]

\* verify_integrity(data, hash_info) at clock reading now: [raised, val, exc];
\* it raises when generate_secure_hash does and when hash_info['hash'] does.
VerifyOutcome(key, data, hash_info, now) ==
  LET current_hash == SecureHash(key, data, now)
  IN  IF current_hash.raised
        THEN [raised |-> TRUE, val |-> FALSE, exc |-> current_hash.exc]
      ELSE IF ~hash_info.isdict
        THEN [raised |-> TRUE, val |-> FALSE, exc |-> Exc("TypeError", << >>)]
      ELSE IF ~hash_info.has_hash
        THEN [raised |-> TRUE, val |-> FALSE, exc |-> Exc("KeyError", << >>)]
      ELSE [raised |-> FALSE, val |-> current_hash.val.hash = hash_info.hash,
            exc |-> NoExc]

\* suspicious_patterns, in the order of the list.
SuspiciousPatterns ==
  << Txt(<< "D", "R", "O", "P", " ", "T", "A", "B", "L", "E" >>),
     Txt(<< "D", "E", "L", "E", "T", "E", " ", "F", "R", "O", "M" >>),
     Txt(<< "<", "s", "c", "r", "i", "p", "t", ">" >>),
     Txt(<< "j", "a", "v", "a", "s", "c", "r", "i", "p", "t", ":" >>),
     Txt(<< "e", "v", "a", "l", "(" >>),
     Txt(<< "e", "x", "e", "c", "(" >>),
     Txt(<< "i", "m", "p", "o", "r", "t", " ", "o", "s" >>),
     Txt(<< "s", "u", "b", "p", "r", "o", "c", "e", "s", "s" >>) >>

RECURSIVE DetectFromCaseSensitive(_, _, _)
\* The loop over suspicious_patterns without the two lower() calls: a pattern
\* is found only where it occurs in the case it is written in.
DetectFromCaseSensitive(data_str, i, now) ==
  IF i > Len(SuspiciousPatterns) THEN << >>
  ELSE (IF Contains(data_str, SuspiciousPatterns[i])
        THEN << [type |-> "injection_attempt", pattern |-> SuspiciousPatterns[i],
                 severity |-> "high", timestamp |-> now] >>
        ELSE << >>) \o DetectFromCaseSensitive(data_str, i + 1, now)

RECURSIVE DetectFrom(_, _, _)
\* The loop over suspicious_patterns from pattern i on: one entry for each
\* pattern whose lower case occurs in the lower case of data_str.
DetectFrom(data_str, i, now) ==
  IF i > Len(SuspiciousPatterns) THEN << >>
  ELSE (IF Contains(Lower(data_str), Lower(SuspiciousPatterns[i]))
        THEN << [type |-> "injection_attempt", pattern |-> SuspiciousPatterns[i],
                 severity |-> "high", timestamp |-> now] >>
        ELSE << >>) \o DetectFrom(data_str, i + 1, now)

\* scan_for_threats(data) at clock reading now: [raised, val], raised = TRUE
\* when json.dumps raises, which is before the event is logged.
ScanOutcome(data, now) ==
  LET dumped == JsonDumps(data, FALSE)
      data_str == IF data.t = "dict" THEN dumped.s ELSE FormatStr(data)
      threats_detected == DetectFrom(data_str, 1, now)
  IN  [raised |-> data.t = "dict" /\ ~dumped.ok,
       exc |-> IF data.t = "dict" /\ ~dumped.ok THEN Exc("TypeError", << >>)
               ELSE NoExc,
       val |-> [scan_complete |-> TRUE,
                threats_detected |-> threats_detected,
                threat_count |-> Len(threats_detected),
                scan_timestamp |-> now,
                security_level |-> IF threats_detected # << >> THEN "high"
                                   ELSE "secure"]]

\* The entry _log_security_event builds.
LogEntry(event_type, details, now) ==
  [timestamp |-> now, event_type |-> event_type, details |-> details,
   security_module |-> "quantum_advanced"]

\* _log_security_event with the slice taken from the wrong end
\* (security_log[:100]): of more than LogCap entries the first LogCap are kept.
LogAppendKeepsOldest(log, entry) ==
  LET appended_log == Append(log, entry)
  IN  IF Len(appended_log) > LogCap THEN SubSeq(appended_log, 1, LogCap)
      ELSE appended_log

\* security_log after _log_security_event appended entry: the entry goes
\* last, and of more than LogCap entries the last LogCap are kept.
LogAppend(log, entry) ==
  LET appended_log == Append(log, entry)
  IN  IF Len(appended_log) > LogCap
      THEN SubSeq(appended_log, Len(appended_log) - LogCap + 1, Len(appended_log))
      ELSE appended_log

\* The snapshot get_security_status returns; last_event is [none |-> TRUE]
\* for None.
StatusOutcome(log) ==
  [module_status |-> "operational",
   quantum_encryption |-> "active",
   threat_detection |-> "monitoring",
   security_events |-> Len(log),
   last_event |-> IF log # << >> THEN [none |-> FALSE, event |-> log[Len(log)]]
                  ELSE [none |-> TRUE, event |-> LogEntry("", "", 0)],
   encryption_strength |-> "AES-256-Quantum",
   owner |-> "Ervin Remus Radosavlevici",
   contact |-> "radosavlevici210@icloud.com",
   copyright |-> "(c) 2025 Ervin Remus Radosavlevici"]

(***************************************************************************)
(* The arguments callers pass, in the model                                *)
(***************************************************************************)

T_hi == Txt(<< "h", "i" >>)
T_hi1 == Txt(<< "h", "i", "1" >>)
T_123 == Txt(<< "1", "2", "3" >>)
T_true == Txt(<< "t", "r", "u", "e" >>)
T_null == Txt(<< "n", "u", "l", "l" >>)
T_json == Txt(<< "{", "\"", "a", "\"", ":", " ", "1", "}" >>)
T_a == Txt(<< "a" >>)
T_b == Txt(<< "b" >>)
T_q == Txt(<< "q" >>)
T_drop == Txt(<< "'", ";", " ", "d", "r", "o", "p", " ", "T", "A", "B", "L", "E",
                 " ", "u", ";", " ", "-", "-" >>)
T_evalscript == Txt(<< "E", "V", "A", "L", "(", "<", "s", "c", "r", "i", "p", "t",
                       ">", "e", "v", "a", "l", "(" >>)

\* {"b": 1, "a": "hi"} and the same mapping built in the other order.
D_ba == PyDict(<< [k |-> T_b, v |-> PyInt(1)], [k |-> T_a, v |-> PyStr(T_hi)] >>)
D_ab == PyDict(<< [k |-> T_a, v |-> PyStr(T_hi)], [k |-> T_b, v |-> PyInt(1)] >>)
\* {"a": 1}, and {"a": object()}, which json cannot serialize.
D_a1 == PyDict(<< [k |-> T_a, v |-> PyInt(1)] >>)
D_obj == PyDict(<< [k |-> T_a, v |-> PyObj] >>)
\* {"q": "'; drop TABLE u; --"}
D_drop == PyDict(<< [k |-> T_q, v |-> PyStr(T_drop)] >>)

\* Text payloads: plain text, text that is itself JSON, a two-byte character
\* (e acute) and a lone surrogate, which is a str but has no UTF-8 encoding.
TextPayloads ==
  { PyStr(T_hi), PyStr(T_hi1), PyStr(T_123), PyStr(T_true), PyStr(T_null),
    PyStr(T_json), PyStr(<< 233 >>), PyStr(<< 55296 >>) }

\* The payloads of encrypt_data.
EncryptPayloads == TextPayloads \cup {D_ba, D_a1, D_obj, PyInt(5)}

\* The payloads of generate_secure_hash and verify_integrity.
HashPayloads ==
  {PyStr(T_hi), PyStr(T_hi1), PyStr(<< 55296 >>), D_ba, D_ab, D_obj, PyInt(5)}

\* The payloads of scan_for_threats.
ScanPayloads ==
  {PyStr(T_hi), PyStr(T_drop), PyStr(T_evalscript), D_drop, D_a1, D_obj, PyInt(5)}

\* The clock readings of the model (seconds since the epoch).
Clocks == {700000000, 700000001, 1700000000}

\* The characters a caller may put in place of character c of a base64 text:
\* the characters whose 6-bit value differs from c's in the lowest or in the
\* highest bit, a character outside the alphabet, and for '=' a letter.
Replacements(c) ==
  IF B64Val(c) >= 0
  THEN { B64Char(Xor(B64Val(c), 1)), B64Char(Xor(B64Val(c), 32)), 33 }
  ELSE { 65, 33 }

\* The texts one edit away from text s: one character replaced, the last
\* character dropped, one character added at the end.
Altered(s) ==
  UNION { { [s EXCEPT ![i] = c] : c \in Replacements(s[i]) } : i \in DOMAIN s }
  \cup { SubSeq(s, 1, Len(s) - 1), Append(s, 65), Append(s, 33) }

(***************************************************************************)
(* The service                                                             *)
(***************************************************************************)

VARIABLES
  quantum_key,   \* self.quantum_key
  security_log,  \* self.security_log
  clock,         \* the reading of time.time() and datetime.utcnow(), in seconds
  ret,           \* the last call: its operation, arguments and outcome
  issued,        \* history: [data, env] of every envelope encrypt_data returned
  tags,          \* history: [data, at, tag] of every tag generate_secure_hash
                 \* returned, at the clock reading of the call
  appended,      \* history: every entry _log_security_event has appended, in order
  nCalls,        \* the number of calls made, the long run of scans apart
  threads,       \* per thread: where its call stands and the locals of the call
  cur,           \* the identity of the list object self.security_log refers to
  stale          \* the list objects self.security_log referred to before:
                 \* stale[r] is the content of list object r < cur

vars == << quantum_key, security_log, clock, ret, issued, tags, appended, nCalls,
           threads, cur, stale >>

\* What only calls that run side by side read and write.
conc == << threads, cur, stale >>

\* The callers of the shared instance: two threads that call
\* scan_for_threats and one that calls get_security_status.
ConcWorkers == {1, 2}

Reader == 0

Threads == ConcWorkers \cup {Reader}

\* A thread that is in no call: pc is where its call stands, ref the list
\* object it loaded last, log_entry, tmp and count the values it holds, calls
\* the number of calls it has made.
IdleThread(calls) ==
  [pc |-> "idle", ref |-> 0,
   log_entry |-> [timestamp |-> 0, event_type |-> "", details |-> "",
                  security_module |-> ""],
   tmp |-> << >>, count |-> 0, calls |-> calls]

\* A call's record: outcome is "returned" or "raised", none says that the
\* call returned None, val is the value returned otherwise, exc the exception
\* a call that raised hands to its caller.
Call(op, arg, arg2, outcome, none, val) ==
  [op |-> op, arg |-> arg, arg2 |-> arg2, outcome |-> outcome, none |-> none,
   val |-> val, exc |-> NoExc]

Init ==
  /\ quantum_key \in Keys
  /\ security_log = << >>
  /\ clock = 700000000
  /\ ret = Call("init", PyNone, PyNone, "returned", TRUE, PyNone)
  /\ issued = << >>
  /\ tags = << >>
  /\ appended = << >>
  /\ nCalls = 0
  /\ threads = [t \in Threads |-> IdleThread(0)]
  /\ cur = 1
  /\ stale = << >>

\* _log_security_event(event_type, details)
LogSecurityEvent(event_type, details) ==
  /\ security_log' = LogAppend(security_log, LogEntry(event_type, details, clock))
  /\ appended' = Append(appended, LogEntry(event_type, details, clock))

\* encrypt_data(data), the cipher drawing nonce.
EncryptData(data, nonce) ==
  LET r == EncryptBody(quantum_key, data, nonce, clock)
  IN  /\ IF r.ok
         THEN /\ LogSecurityEvent("data_encrypted", "success")
              /\ ret' = Call("encrypt", data, nonce, "returned", FALSE, r.env)
              /\ issued' = Append(issued, [data |-> data, env |-> r.env])
         ELSE /\ LogSecurityEvent("encryption_error", r.err)
              /\ ret' = Call("encrypt", data, nonce, "returned", TRUE, PyNone)
              /\ issued' = issued
      /\ UNCHANGED << quantum_key, clock, tags >>

\* decrypt_data with an except branch that returns None without logging.
DecryptDataSilentError(encrypted_package) ==
  LET r == DecryptBody(quantum_key, encrypted_package)
  IN  /\ IF r.ok
         THEN /\ LogSecurityEvent("data_decrypted", "success")
              /\ ret' = Call("decrypt", encrypted_package, PyNone, "returned",
                             r.val = PyNone, r.val)
         ELSE /\ UNCHANGED << security_log, appended >>
              /\ ret' = Call("decrypt", encrypted_package, PyNone, "returned",
                             TRUE, PyNone)
      /\ UNCHANGED << quantum_key, clock, issued, tags >>

\* decrypt_data(encrypted_package)
DecryptData(encrypted_package) ==
  LET r == DecryptBody(quantum_key, encrypted_package)
  IN  /\ IF r.ok
         THEN /\ LogSecurityEvent("data_decrypted", "success")
              /\ ret' = Call("decrypt", encrypted_package, PyNone, "returned",
                             r.val = PyNone, r.val)
         ELSE /\ LogSecurityEvent("decryption_error", r.err)
              /\ ret' = Call("decrypt", encrypted_package, PyNone, "returned",
                             TRUE, PyNone)
      /\ UNCHANGED << quantum_key, clock, issued, tags >>

\* generate_secure_hash(data)
GenerateSecureHash(data) ==
  LET r == SecureHash(quantum_key, data, clock)
  IN  /\ ret' = [Call("hash", data, PyNone,
                      IF r.raised THEN "raised" ELSE "returned", FALSE, r.val)
                 EXCEPT !.exc = r.exc]
      /\ tags' = IF r.raised THEN tags
                 ELSE Append(tags, [data |-> data, at |-> clock, tag |-> r.val])
      /\ UNCHANGED << quantum_key, security_log, clock, issued, appended >>

\* verify_integrity(data, hash_info)
VerifyIntegrity(data, hash_info) ==
  LET r == VerifyOutcome(quantum_key, data, hash_info, clock)
  IN  /\ ret' = [Call("verify", data, hash_info,
                      IF r.raised THEN "raised" ELSE "returned", FALSE, r.val)
                 EXCEPT !.exc = r.exc]
      /\ UNCHANGED << quantum_key, security_log, clock, issued, tags, appended >>

\* scan_for_threats(data)
ScanForThreats(data) ==
  LET r == ScanOutcome(data, clock)
  IN  /\ IF r.raised
         THEN /\ ret' = [Call("scan", data, PyNone, "raised", FALSE, r.val)
                         EXCEPT !.exc = r.exc]
              /\ UNCHANGED << security_log, appended >>
         ELSE /\ LogSecurityEvent("threat_scan",
                                  "threats_found: " \o ToString(r.val.threat_count))
              /\ ret' = Call("scan", data, PyNone, "returned", FALSE, r.val)
      /\ UNCHANGED << quantum_key, clock, issued, tags >>

\* get_security_status that logs the call itself.
GetSecurityStatusLogged ==
  /\ LogSecurityEvent("status_check", "success")
  /\ ret' = Call("status", PyNone, PyNone, "returned", FALSE,
                 StatusOutcome(security_log))
  /\ UNCHANGED << quantum_key, clock, issued, tags >>

\* get_security_status()
GetSecurityStatus ==
  /\ ret' = Call("status", PyNone, PyNone, "returned", FALSE,
                 StatusOutcome(security_log))
  /\ UNCHANGED << quantum_key, security_log, clock, issued, tags, appended >>

\* Time passes between two calls.
Tick ==
  /\ \E c \in Clocks : c > clock /\ clock' = c
  /\ UNCHANGED << quantum_key, security_log, ret, issued, tags, appended, nCalls >>
  /\ UNCHANGED conc

\* The envelopes another service instance, with a key of its own, returns.
ForeignEnvelopes ==
  { Envelope(k, n, Utf8Encode(T_hi).bytes, clock) : k \in Keys, n \in Nonces }

\* An envelope with one of its three encoded fields altered.
Tampered(env) ==
  { [env EXCEPT !.encrypted_data = x] : x \in Altered(env.encrypted_data) }
  \cup { [env EXCEPT !.auth_tag = x] : x \in Altered(env.auth_tag) }
  \cup { [env EXCEPT !.nonce = x] : x \in Altered(env.nonce) }

\* A mapping that lacks one of the keys decrypt_data reads.
Lacking(env) ==
  { [env EXCEPT !.missing = {f}] : f \in {"encrypted_data", "nonce", "auth_tag"} }

\* What callers may hand to decrypt_data: an envelope this service returned,
\* as it is, altered or with a key removed; another service's envelope; None.
DecryptInputs ==
  LET own == {issued[i].env : i \in DOMAIN issued}
  IN  own \cup UNION {Tampered(e) : e \in own} \cup UNION {Lacking(e) : e \in own}
      \cup ForeignEnvelopes \cup {NoPackage}

\* What callers may hand to verify_integrity as the tag: a tag this service
\* returned, as it is, without its 'hash' or with another digest; None.
VerifyInputs ==
  LET own == {tags[i].tag : i \in DOMAIN tags}
  IN  own \cup {[t EXCEPT !.has_hash = FALSE] : t \in own}
      \cup {[t EXCEPT !.hash = Sha256Hex(<< >>)] : t \in own} \cup {NoHashInfo}

\* A behaviour makes at most MaxOps calls, the long run of scans apart.
CanCall == nCalls < MaxOps

\* The call A, counted.
Counted(A) == nCalls' = nCalls + 1 /\ A /\ UNCHANGED conc

Next ==
  \/ CanCall /\ \E data \in EncryptPayloads, nonce \in Nonces :
                  Counted(EncryptData(data, nonce))
  \/ CanCall /\ \E encrypted_package \in DecryptInputs :
                  Counted(DecryptData(encrypted_package))
  \/ CanCall /\ \E data \in HashPayloads : Counted(GenerateSecureHash(data))
  \/ CanCall /\ \E data \in HashPayloads, hash_info \in VerifyInputs :
                  Counted(VerifyIntegrity(data, hash_info))
  \/ CanCall /\ \E data \in ScanPayloads : Counted(ScanForThreats(data))
  \/ CanCall /\ Counted(GetSecurityStatus)
  \/ Tick

Spec == Init /\ [][Next]_vars

(***************************************************************************)
(* The service under a long run of calls: one run of identical scans,      *)
(* before the first or after the last of at most MaxLogOps other calls,    *)
(* long enough to overrun the log by MaxOverrun entries.                   *)
(***************************************************************************)

\* The last call was a scan of the run.
InRun == ret.op = "scan" /\ ret.arg = PyStr(T_hi)

\* One more scan of the run.
RunScan ==
  /\ Len(appended) < LogCap + MaxOverrun
  /\ \/ InRun
     \/ appended = << >>
     \/ nCalls = MaxLogOps /\ Len(appended) <= MaxLogOps
  /\ ScanForThreats(PyStr(T_hi))
  /\ UNCHANGED nCalls
  /\ UNCHANGED conc

\* Time passes, between two calls that are not both of the run.
QuietTick == ~InRun /\ Tick

\* Beside the run a behaviour makes at most MaxLogOps calls.
CanCallLog == nCalls < MaxLogOps

NextLog ==
  \/ RunScan
  \/ CanCallLog /\ \E data \in {PyStr(T_123), PyInt(5)} :
                     Counted(EncryptData(data, << 0, 1 >>))
  \/ CanCallLog /\ \E encrypted_package \in {issued[i].env : i \in DOMAIN issued}
                                            \cup {NoPackage} :
                     Counted(DecryptData(encrypted_package))
  \/ CanCallLog /\ Counted(GenerateSecureHash(PyStr(T_hi)))
  \/ CanCallLog /\ \E hash_info \in {tags[i].tag : i \in DOMAIN tags}
                                    \cup {NoHashInfo} :
                     Counted(VerifyIntegrity(PyStr(T_hi), hash_info))
  \/ CanCallLog /\ \E data \in {PyStr(T_drop), D_obj} :
                     Counted(ScanForThreats(data))
  \/ CanCallLog /\ Counted(GetSecurityStatus)
  \/ QuietTick

SpecLog == Init /\ [][NextLog]_vars

(***************************************************************************)
(* The shared instance under concurrent callers.  No method of the class   *)
(* takes a lock, so the calls of two threads interleave between any two    *)
(* reads and writes of self.security_log.  A behaviour first fills the log *)
(* by calls made one after the other, then the threads call side by side.  *)
(***************************************************************************)

\* The number of calls each thread makes.
MaxConcCalls == 1

\* The threads start calling once the log is within ConcSlack entries of
\* LogCap.
ConcSlack == 1

\* The payload worker t scans: one without and one with a match, so that the
\* events of the two workers differ.
WorkerData(t) == IF t = 1 THEN PyStr(T_hi) ELSE PyStr(T_drop)

\* The content of list object r.
ListOf(r) == IF r = cur THEN security_log ELSE stale[r]

\* No thread is in a call.
AllIdle == \A t \in Threads : threads[t].pc = "idle"

\* Thread t may start a call.
CanStart(t) ==
  /\ threads[t].pc = "idle"
  /\ threads[t].calls < MaxConcCalls
  /\ Len(appended) >= LogCap - ConcSlack

\* A step of thread t that touches nothing but its own locals.
LocalStep(t, rec) ==
  /\ threads' = [threads EXCEPT ![t] = rec]
  /\ UNCHANGED << quantum_key, security_log, clock, ret, issued, tags, appended,
                  nCalls, cur, stale >>

\* Thread t loads self.security_log and goes on to pc.
LoadLog(t, pc) == LocalStep(t, [threads[t] EXCEPT !.ref = cur, !.pc = pc])

\* A call made while no other call runs: the whole of scan_for_threats.
FillScan ==
  /\ AllIdle
  /\ Len(appended) < LogCap
  /\ \A t \in Threads : threads[t].calls = 0
  /\ ScanForThreats(PyStr(T_hi))
  /\ UNCHANGED << nCalls, threads, cur, stale >>

\* Worker t calls scan_for_threats: the scan itself reads nothing shared, and
\* _log_security_event builds log_entry.
ConcScanCall(t) ==
  /\ CanStart(t)
  /\ LocalStep(t, [threads[t] EXCEPT
                     !.pc = "append_load",
                     !.log_entry =
                       LogEntry("threat_scan",
                                "threats_found: " \o
                                  ToString(ScanOutcome(WorkerData(t), clock).val.threat_count),
                                clock)])

\* self.security_log.append(log_entry): the load of the attribute.
AppendLoad(t) == threads[t].pc = "append_load" /\ LoadLog(t, "append_call")

\* self.security_log.append(log_entry): the append, to the list loaded.
AppendCall(t) ==
  /\ threads[t].pc = "append_call"
  /\ IF threads[t].ref = cur
     THEN /\ security_log' = Append(security_log, threads[t].log_entry)
          /\ stale' = stale
     ELSE /\ stale' = [stale EXCEPT ![threads[t].ref] =
                         Append(@, threads[t].log_entry)]
          /\ security_log' = security_log
  /\ appended' = Append(appended, threads[t].log_entry)
  /\ threads' = [threads EXCEPT ![t].pc = "len_load"]
  /\ UNCHANGED << quantum_key, clock, ret, issued, tags, nCalls, cur >>

\* len(self.security_log) > 100: the load of the attribute.
LenLoad(t) == threads[t].pc = "len_load" /\ LoadLog(t, "len_call")

\* len(self.security_log) > 100: the test, on the list loaded.
LenCall(t) ==
  /\ threads[t].pc = "len_call"
  /\ LocalStep(t, [threads[t] EXCEPT
                     !.pc = IF Len(ListOf(threads[t].ref)) > LogCap
                            THEN "slice_load" ELSE "return"])

\* self.security_log[-100:]: the load of the attribute.
SliceLoad(t) == threads[t].pc = "slice_load" /\ LoadLog(t, "slice_call")

\* self.security_log[-100:]: the slice, a new list.
SliceCall(t) ==
  /\ threads[t].pc = "slice_call"
  /\ LocalStep(t, [threads[t] EXCEPT
                     !.pc = "store",
                     !.tmp = LET l == ListOf(threads[t].ref)
                             IN  IF Len(l) > LogCap
                                 THEN SubSeq(l, Len(l) - LogCap + 1, Len(l))
                                 ELSE l])

\* self.security_log = <the slice>
StoreLog(t) ==
  /\ threads[t].pc = "store"
  /\ stale' = Append(stale, security_log)
  /\ cur' = cur + 1
  /\ security_log' = threads[t].tmp
  /\ threads' = [threads EXCEPT ![t].pc = "return"]
  /\ UNCHANGED << quantum_key, clock, ret, issued, tags, appended, nCalls >>

\* scan_for_threats returns its report to worker t.
ConcScanReturn(t) ==
  /\ threads[t].pc = "return"
  /\ ret' = Call("scan", WorkerData(t), PyNone, "returned", FALSE,
                 ScanOutcome(WorkerData(t), clock).val)
  /\ nCalls' = nCalls + 1
  /\ threads' = [threads EXCEPT ![t] = IdleThread(threads[t].calls + 1)]
  /\ UNCHANGED << quantum_key, security_log, clock, issued, tags, appended, cur,
                  stale >>

\* The reader calls get_security_status.
StatusCall ==
  /\ CanStart(Reader)
  /\ LocalStep(Reader, [threads[Reader] EXCEPT !.pc = "count_load"])

\* 'security_events': len(self.security_log): the load of the attribute.
CountLoad == threads[Reader].pc = "count_load" /\ LoadLog(Reader, "count_len")

\* 'security_events': len(self.security_log): the len, of the list loaded.
CountLen ==
  /\ threads[Reader].pc = "count_len"
  /\ LocalStep(Reader, [threads[Reader] EXCEPT
                          !.pc = "truth_load",
                          !.count = Len(ListOf(threads[Reader].ref))])

\* ... if self.security_log else None: the load of the attribute.
TruthLoad == threads[Reader].pc = "truth_load" /\ LoadLog(Reader, "truth_test")

\* ... if self.security_log else None: the test, on the list loaded.
TruthTest ==
  /\ threads[Reader].pc = "truth_test"
  /\ LocalStep(Reader, [threads[Reader] EXCEPT
                          !.pc = IF ListOf(threads[Reader].ref) # << >>
                                 THEN "last_load" ELSE "status_return"])

\* self.security_log[-1]: the load of the attribute.
LastLoad == threads[Reader].pc = "last_load" /\ LoadLog(Reader, "last_index")

\* self.security_log[-1]: the last entry of the list loaded; a list object
\* never shrinks, so the one loaded after the truth test has one.
LastIndex ==
  /\ threads[Reader].pc = "last_index"
  /\ LocalStep(Reader, [threads[Reader] EXCEPT
                          !.pc = "status_return",
                          !.tmp = LET l == ListOf(threads[Reader].ref)
                                  IN  << l[Len(l)] >>])

\* get_security_status returns the snapshot built from what the reader read.
StatusReturn ==
  /\ threads[Reader].pc = "status_return"
  /\ ret' = Call("status", PyNone, PyNone, "returned", FALSE,
                 [StatusOutcome(threads[Reader].tmp) EXCEPT
                    !.security_events = threads[Reader].count])
  /\ nCalls' = nCalls + 1
  /\ threads' = [threads EXCEPT ![Reader] = IdleThread(threads[Reader].calls + 1)]
  /\ UNCHANGED << quantum_key, security_log, clock, issued, tags, appended, cur,
                  stale >>

NextConc ==
  \/ FillScan
  \/ \E t \in ConcWorkers : ConcScanCall(t)
  \/ \E t \in ConcWorkers : AppendLoad(t)
  \/ \E t \in ConcWorkers : AppendCall(t)
  \/ \E t \in ConcWorkers : LenLoad(t)
  \/ \E t \in ConcWorkers : LenCall(t)
  \/ \E t \in ConcWorkers : SliceLoad(t)
  \/ \E t \in ConcWorkers : SliceCall(t)
  \/ \E t \in ConcWorkers : StoreLog(t)
  \/ \E t \in ConcWorkers : ConcScanReturn(t)
  \/ StatusCall
  \/ CountLoad
  \/ CountLen
  \/ TruthLoad
  \/ TruthTest
  \/ LastLoad
  \/ LastIndex
  \/ StatusReturn

SpecConc == Init /\ [][NextConc]_vars

(***************************************************************************)
(* Properties                                                              *)
(***************************************************************************)

\* The three encoded fields of package p are those of envelope e.
SameFields(p, e) ==
  /\ p.isdict
  /\ p.missing = {}
  /\ p.encrypted_data = e.encrypted_data
  /\ p.nonce = e.nonce
  /\ p.auth_tag = e.auth_tag

\* Package p is an envelope made under this service's key and not changed
\* since: one the service returned, or one of another service that holds the
\* same key.
Authentic(p) ==
  \/ \E i \in DOMAIN issued : SameFields(p, issued[i].env)
  \/ \E n \in Nonces :
       SameFields(p, Envelope(quantum_key, n, Utf8Encode(T_hi).bytes, clock))

\* C1: decrypt_data(encrypt_data(P)) returns a value equal to P, for every
\* payload P that encrypt_data accepted: the same text for a text payload,
\* an equal mapping for a mapping payload.
C1_RoundTrip ==
  \A i \in DOMAIN issued :
    (ret.op = "decrypt" /\ ret.arg = issued[i].env)
      => (~ret.none /\ PyEq(ret.val, issued[i].data))

\* C2: decrypt_data returns None for every package that is not an envelope
\* made under this service's key and left unchanged: an envelope of a service
\* with another key, or one whose ciphertext or tag was altered.
C2_AlteredRejected ==
  (ret.op = "decrypt" /\ ~Authentic(ret.arg)) => ret.none

\* C3: verify_integrity(P, T) returns true for every tag T that
\* generate_secure_hash(P) returned on this service, whatever the clock reads
\* at the time of the verify call.
C3_VerifyOwnTag ==
  \A i \in DOMAIN tags :
    (ret.op = "verify" /\ ret.arg = tags[i].data /\ ret.arg2 = tags[i].tag)
      => (ret.outcome = "returned" /\ ret.val = TRUE)

\* The last n entries of a sequence.
LastN(seq, n) == SubSeq(seq, Len(seq) - n + 1, Len(seq))

Min(a, b) == IF a < b THEN a ELSE b

\* C4: the log never holds more than LogCap entries, it is the most recent
\* min(n, LogCap) of the n entries ever appended, in the order they were
\* appended, and the count get_security_status reports is at most LogCap.
C4_LogBound ==
  /\ Len(security_log) <= LogCap
  /\ security_log = LastN(appended, Min(Len(appended), LogCap))
  /\ (ret.op = "status" => ret.val.security_events <= LogCap)

\* More than LogCap entries were appended and the oldest, which was dropped,
\* is not one of the long run of scans.
C4_OverrunReached ==
  /\ Len(appended) > LogCap
  /\ appended[1].event_type # "threat_scan"
  /\ security_log[1] # appended[1]

\* C5: the nonces of the envelopes one service instance has returned are
\* pairwise distinct.
C5_NoncesDistinct ==
  \A i, j \in DOMAIN issued :
    i # j => issued[i].env.nonce # issued[j].env.nonce

\* The step is a call of operation op.
IsCallOf(op) == nCalls' = nCalls + 1 /\ ret'.op = op

\* The entry appended last, after the step.
LastAppended == appended'[Len(appended')]

\* C6: encrypt_data and decrypt_data never raise and append exactly one
\* event: a call that returns a value logs 'data_encrypted' / 'data_decrypted'
\* with detail 'success', a call that returns None logs 'encryption_error' /
\* 'decryption_error'.
C6_OneEventPerCall ==
  [][ (IsCallOf("encrypt") \/ IsCallOf("decrypt")) =>
        /\ ret'.outcome = "returned"
        /\ Len(appended') = Len(appended) + 1
        /\ IF ret'.none
           THEN LastAppended.event_type =
                  (IF ret'.op = "encrypt" THEN "encryption_error"
                   ELSE "decryption_error")
           ELSE /\ LastAppended.event_type =
                     (IF ret'.op = "encrypt" THEN "data_encrypted"
                      ELSE "data_decrypted")
                /\ LastAppended.details = "success" ]_vars

\* C7: generate_secure_hash and verify_integrity never raise, and
\* verify_integrity returns a boolean, for every payload and every tag.
C7_HashVerifyNeverRaise ==
  ret.op \in {"hash", "verify"} =>
    /\ ret.outcome = "returned"
    /\ (ret.op = "verify" => ret.val \in BOOLEAN)

C9_StatusIsPureRead ==
  [][ IsCallOf("status") =>
        /\ security_log' = security_log
        /\ appended' = appended
        /\ quantum_key' = quantum_key
        /\ ret'.outcome = "returned"
        /\ ret'.val.security_events = Len(security_log)
        /\ IF appended = << >> THEN ret'.val.last_event.none
           ELSE /\ ~ret'.val.last_event.none
                /\ ret'.val.last_event.event = appended[Len(appended)] ]_vars

\* get_security_status has returned the snapshot of a log of one entry.
C9_StatusAfterEvent ==
  /\ ret.op = "status"
  /\ ret.val.security_events = 1
  /\ ~ret.val.last_event.none
  /\ Len(security_log) = 1

\* C10: two tags generate_secure_hash returned for equal payloads (mappings
\* equal whatever their key order) carry the same digest and timestamp when
\* the calls read the same second, and different digests when they read
\* different seconds.
C10_HashPerSecond ==
  \A i, j \in DOMAIN tags :
    PyEq(tags[i].data, tags[j].data) =>
      IF tags[i].at = tags[j].at
      THEN /\ tags[i].tag.hash = tags[j].tag.hash
           /\ tags[i].tag.timestamp = tags[j].tag.timestamp
      ELSE tags[i].tag.hash # tags[j].tag.hash

\* The same mapping, built in two key orders, was hashed twice within one
\* second.
C10_ReorderedSameSecond ==
  /\ Len(tags) = 2
  /\ tags[1].data = D_ba
  /\ tags[2].data = D_ab
  /\ tags[1].at = tags[2].at
  /\ tags[1].tag.hash = tags[2].tag.hash

\* The canonical serialization generate_secure_hash hashes: the sorted-key
\* JSON text of a mapping, the text of anything else.
Canonical(data) ==
  IF data.t = "dict" THEN JsonDumps(data, TRUE).s ELSE FormatStr(data)

\* C11: verify_integrity(P', T) does not return true for a tag T that
\* generate_secure_hash(P) returned on this service and a payload P' whose
\* canonical serialization differs from that of P, whatever the clock reads at
\* the time of the verify call.
C11_TamperDetected ==
  \A i \in DOMAIN tags :
    (/\ ret.op = "verify"
     /\ ret.arg2 = tags[i].tag
     /\ Canonical(ret.arg) # Canonical(tags[i].data))
      => ~(ret.outcome = "returned" /\ ret.val = TRUE)

\* C12: every call of scan_for_threats returns a report whose security_level
\* is 'high' exactly when it lists a match and 'secure' otherwise, whose
\* threat_count is the number of matches listed and whose scan_complete is
\* true, and appends exactly one 'threat_scan' event whose detail carries
\* that count.
C12_ScanReport ==
  [][ IsCallOf("scan") =>
        /\ ret'.outcome = "returned"
        /\ ret'.val.scan_complete = TRUE
        /\ ret'.val.threat_count = Len(ret'.val.threats_detected)
        /\ ret'.val.security_level =
             (IF Len(ret'.val.threats_detected) >= 1 THEN "high" ELSE "secure")
        /\ Len(appended') = Len(appended) + 1
        /\ LastAppended.event_type = "threat_scan"
        /\ LastAppended.details =
             "threats_found: " \o ToString(Len(ret'.val.threats_detected)) ]_vars

\* Characters c and d are the same, or the two cases of one letter.
CaseEq(c, d) ==
  \/ c = d
  \/ c \in 65..90 /\ d = c + 32
  \/ d \in 65..90 /\ c = d + 32

\* Pattern p occurs somewhere in text s, the case of letters apart.
Occurs(s, p) ==
  \E at \in 1..(Len(s) - Len(p) + 1) :
    \A k \in 1..Len(p) : CaseEq(s[at + k - 1], p[k])

\* The text scan_for_threats searches: the JSON text of a mapping, the str()
\* of anything else.
ScanText(data) ==
  IF data.t = "dict" THEN JsonDumps(data, FALSE).s ELSE FormatStr(data)

\* C13: the matches scan_for_threats lists are, in the order of the denylist,
\* one entry for each pattern that occurs in the serialized payload whatever
\* the case of its letters, and none for any other pattern; each entry has
\* type 'injection_attempt' and severity 'high'.
C13_OneMatchPerPattern ==
  (ret.op = "scan" /\ ret.outcome = "returned") =>
    LET threats_detected == ret.val.threats_detected
    IN  /\ [i \in DOMAIN threats_detected |-> threats_detected[i].pattern]
             = SelectSeq(SuspiciousPatterns,
                         LAMBDA p : Occurs(ScanText(ret.arg), p))
        /\ \A i \in DOMAIN threats_detected :
             /\ threats_detected[i].type = "injection_attempt"
             /\ threats_detected[i].severity = "high"

\* A scan of 'EVAL(<script>eval(' has returned: 'eval(' occurs twice, in two
\* cases, and before and after '<script>'; the report lists '<script>' and
\* then 'eval(', each once.
C13_TwoPatternsListed ==
  /\ ret.op = "scan"
  /\ ret.outcome = "returned"
  /\ ret.arg = PyStr(T_evalscript)
  /\ Len(ret.val.threats_detected) = 2
  /\ ret.val.threats_detected[1].pattern = SuspiciousPatterns[3]
  /\ ret.val.threats_detected[2].pattern = SuspiciousPatterns[5]

\* C14: with callers running side by side the append and the trim of
\* _log_security_event act as one step: the log always ends with the most
\* recent min(n, LogCap) of the n entries appended, in the order they were
\* appended, and no get_security_status reports more than LogCap entries.
C14_AtomicAppendTrim ==
  /\ LET n == Min(Len(appended), LogCap)
     IN  /\ Len(security_log) >= n
         /\ LastN(security_log, n) = LastN(appended, n)
  /\ (ret.op = "status" => ret.val.security_events <= LogCap)

\* The forms in which the key may be written out: its bytes, its hex text and
\* its base64 text.
KeyMaterial == {quantum_key, Hex(quantum_key), B64Encode(quantum_key)}

\* Text or byte string s holds the key in one of these forms.
Exposes(s) == \E k \in KeyMaterial : Contains(s, k)

\* The texts and byte strings the last call handed to its caller: the fields
\* of an envelope and the bytes they encode, the plaintext decrypt_data
\* returned, the timestamp of an integrity tag, the patterns of a threat
\* report, and the text an exception carries.  A digest stands for itself and
\* not for the text that was hashed; the fields of a status snapshot and of a
\* logged event are texts the code writes as literals or takes from the
\* message of an exception.
CallerTexts ==
  IF ret.outcome = "raised" THEN {ret.exc.object}
  ELSE IF ret.op = "encrypt" /\ ~ret.none
    THEN LET fields == {ret.val.encrypted_data, ret.val.nonce, ret.val.auth_tag}
         IN  fields \cup {B64Decode(f).bytes : f \in fields}
  ELSE IF ret.op = "decrypt" /\ ~ret.none THEN {ScanText(ret.val)}
  ELSE IF ret.op = "hash" THEN {ret.val.timestamp}
  ELSE IF ret.op = "scan"
    THEN {ret.val.threats_detected[i].pattern :
            i \in DOMAIN ret.val.threats_detected}
  ELSE {}

\* The last call handed the key to its caller.
KeyReachesCaller == \E s \in CallerTexts : Exposes(s)

\* C15: no operation changes the key, and no operation hands the key to its
\* caller, whether it succeeds or fails.
C15_KeySealed ==
  [][ quantum_key' = quantum_key /\ ~KeyReachesCaller' ]_vars

====
